---------------------------- MODULE Spec2Model ----------------------------
(***************************************************************************)
(* The "Effects" preferences panel of Audacity (src/prefs/EffectsPrefs.cpp).*)
(*                                                                         *)
(* The panel discovers the installed effect modules once per process       *)
(* (GetModuleData), sorts the (prompt, setting) entries by setting key,    *)
(* and exchanges one check box per entry, a choice, a numeric text box and *)
(* some fixed check boxes with the preferences store (gPrefs) through a    *)
(* ShuttleGui: in load mode when the panel is constructed (Populate), in   *)
(* save mode on Commit.                                                    *)
(*                                                                         *)
(* wxString values that are only compared for equality (prompts, family    *)
(* identifiers, choice codes) are TLA+ strings.  Setting keys are ordered  *)
(* by wxString's operator<, so they are sequences of character codes.      *)
(***************************************************************************)
EXTENDS Integers, Sequences, FiniteSets, TLC

(* ------------------------------ bounds -------------------------------- *)

\* Most modules the plugin registry holds at one time.
MaxModules == 2
\* Most installs/uninstalls of a module during the life of the process.
MaxRegistryChanges == 1
\* Most panels constructed during the life of the process.
MaxOpens == 1
\* Most changes the user makes to controls during the life of the process.
MaxEdits == 1
\* Largest number the user types into the numeric text box.
MaxTyped == 1
\* Threads that may call GetModuleData at the same time.
NumThreads == 2

(* ------------------------------ strings ------------------------------- *)

\* wxString operator<: lexicographic order of the code units; a proper
\* prefix is less than the longer string.
RECURSIVE StrLess(_, _)
StrLess(a, b) ==
    IF b = <<>> THEN FALSE
    ELSE IF a = <<>> THEN TRUE
    ELSE IF Head(a) < Head(b) THEN TRUE
    ELSE IF Head(b) < Head(a) THEN FALSE
    ELSE StrLess(Tail(a), Tail(b))

\* "/Plugins/Enable/"
EnablePrefix == <<47,80,108,117,103,105,110,115,47,69,110,97,98,108,101,47>>
\* "/Plugins/Enable/AAA"
KeyAAA == EnablePrefix \o <<65,65,65>>
\* "/Plugins/Enable/LADSPA"
KeyLADSPA == EnablePrefix \o <<76,65,68,83,80,65>>
\* "/Effects/GroupBy"
KeyGroupBy == <<47,69,102,102,101,99,116,115,47,71,114,111,117,112,66,121>>
\* "/Effects/MaxPerGroup"
KeyMaxPerGroup ==
    <<47,69,102,102,101,99,116,115,47,77,97,120,80,101,114,71,114,111,117,112>>
\* "/Plugins/CheckForUpdates"
KeyCheckForUpdates ==
    <<47,80,108,117,103,105,110,115,47,67,104,101,99,107,70,111,114,85,112,
      100,97,116,101,115>>
\* "/Plugins/Rescan"
KeyRescan == <<47,80,108,117,103,105,110,115,47,82,101,115,99,97,110>>
\* "/SSE/GUI"
KeySSE == <<47,83,83,69,47,71,85,73>>

(* --------------------------- plugin registry -------------------------- *)

\* The module descriptors the registry may hold.  family is what
\* GetEffectFamily() returns, msgid what GetSymbol().Msgid() returns and
\* setting what PluginManager::GetPluginEnabledSetting returns for the
\* module.  The built-in module has no family; the two MyCo modules
\* resolve to the same setting key.
ModBuiltin == [family |-> "", msgid |-> "Builtin Effects", setting |-> <<>>]
ModLadspa == [family |-> "LADSPA", msgid |-> "LADSPA Effects",
              setting |-> KeyLADSPA]
ModMyCoA == [family |-> "MyCo", msgid |-> "MyCo Reverbs", setting |-> KeyAAA]
ModMyCoB == [family |-> "MyCo", msgid |-> "MyCo Delays", setting |-> KeyAAA]
Modules == {ModBuiltin, ModLadspa, ModMyCoA, ModMyCoB}

\* Sequences of distinct elements of S, at most n long.
RECURSIVE DistinctSeqs(_, _)
DistinctSeqs(S, n) ==
    IF n = 0 THEN {<<>>}
    ELSE LET shorter == DistinctSeqs(S, n - 1)
             longer == { Append(s, x) : s \in shorter, x \in S }
         IN  shorter \cup
             { s \in longer : \A i, j \in 1..Len(s) : i < j => s[i] # s[j] }

\* What GetFirstPlugin/GetNextPlugin(PluginTypeModule) can enumerate: the
\* installed modules in the registry's iteration order.
Registries == DistinctSeqs(Modules, MaxModules)

GetEffectFamily(plug) == plug.family
GetSymbolMsgid(plug) == plug.msgid
GetPluginEnabledSetting(plug) == plug.setting

(* ----------------------------- discovery ------------------------------ *)

SuggestedPrompts ==
    ("AudioUnit" :> "Audio Unit") @@ ("LADSPA" :> "&LADSPA") @@
    ("LV2" :> "LV&2") @@ ("Nyquist" :> "N&yquist") @@
    ("Vamp" :> "&Vamp") @@ ("VST" :> "V&ST")

\* Fault variant of PromptFor: the table of suggested prompts is ignored.
PromptMsgidOnly(plug) == GetSymbolMsgid(plug)

\* The prompt of a module: the suggested one when the family is in the
\* table, the module's own msgid otherwise.
PromptFor(plug) ==
    LET internal == GetEffectFamily(plug)
    IN  IF internal \notin DOMAIN SuggestedPrompts
        THEN GetSymbolMsgid(plug)
        ELSE SuggestedPrompts[internal]

\* Fault variant of LoopBody: a module without a family is pushed too.
LoopBodyNoSkip(data, plug) ==
    Append(data, [prompt |-> PromptFor(plug),
                  setting |-> GetPluginEnabledSetting(plug)])

\* One iteration of the constructor's loop: a module without a family is
\* skipped, any other one is pushed back.
LoopBody(data, plug) ==
    IF GetEffectFamily(plug) = ""
    THEN data
    ELSE Append(data, [prompt |-> PromptFor(plug),
                       setting |-> GetPluginEnabledSetting(plug)])

\* The loop over the registry, from the first plugin to the last.
RECURSIVE Collect(_, _)
Collect(data, plugs) ==
    IF plugs = <<>> THEN data
    ELSE Collect(LoopBody(data, Head(plugs)), Tail(plugs))

\* Fault variant of EntryLess: the comparison is reversed.
EntryGreater(a, b) == StrLess(b.setting, a.setting)

\* The comparator handed to std::sort.
EntryLess(a, b) == StrLess(a.setting, b.setting)

\* The rearrangements of a sequence.
PermSeqs(s) ==
    { [i \in 1..Len(s) |-> s[p[i]]] : p \in Permutations(1..Len(s)) }

\* std::sort: some rearrangement in which no element is less (by the
\* comparator) than an earlier one.  The order of equivalent elements is
\* not specified.
SortOutcomes(s) ==
    { t \in PermSeqs(s) :
        \A i, j \in 1..Len(t) : i < j => ~EntryLess(t[j], t[i]) }

\* What the constructor of ModuleData can build from the registry.
ModuleDataOutcomes(plugs) == SortOutcomes(Collect(<<>>, plugs))


(* ------------------------------- state -------------------------------- *)

VARIABLES
    build,         \* the macros the file was compiled with
    plugins,       \* the registry's modules, in its iteration order
    regChanges,    \* installs/uninstalls so far
    guard,         \* initialisation of the static theData: uninit/busy/done
    theData,       \* the static ModuleData of GetModuleData
    enumerated,    \* the registry as the constructor of ModuleData saw it
    enumCount,     \* how often the registry was enumerated
    gPrefs,        \* the preferences store: setting key -> value
    panelOpen,     \* an EffectsPrefs panel exists
    controls,      \* its controls, in order of creation (window id)
    keysRead,      \* the keys read from gPrefs when the panel was populated
    keysWritten,   \* the keys written to gPrefs by the last Commit
    commitReturn,  \* what the last Commit returned
    opens,         \* panels constructed so far
    edits,         \* changes the user made to controls so far
    lastOp,        \* the operation that led to this state
    pc,            \* where each thread is in GetModuleData
    cursor,        \* the constructing thread's place in the registry
    seen           \* the list each thread got from GetModuleData

vars == <<build, plugins, regChanges, guard, theData, enumerated, enumCount,
          gPrefs, panelOpen, controls, keysRead, keysWritten, commitReturn,
          opens, edits, lastOp, pc, cursor, seen>>

discoveryVars == <<guard, theData, enumerated, enumCount>>
panelVars == <<panelOpen, controls, keysRead, keysWritten, commitReturn,
               opens, edits>>
threadVars == <<pc, cursor, seen>>

Threads == 1..NumThreads

\* Saturation of the enumeration counter.
EnumCap == 2

\* __WXGTK__, EXPERIMENTAL_EFFECT_MANAGEMENT and
\* EXPERIMENTAL_EQ_SSE_THREADED, each defined or not.
Builds == [wxGTK : BOOLEAN, effectManagement : BOOLEAN, sseThreaded : BOOLEAN]

(* --------------------------- GetModuleData ---------------------------- *)

\* Fault variant of GetModuleData: theData is not static, every call
\* constructs it.
GetModuleDataUncached(g, cached, plugs) ==
    { [data |-> d, constructed |-> TRUE] : d \in ModuleDataOutcomes(plugs) }

\* A call of GetModuleData on the UI thread: the static theData is
\* constructed by the first call and returned as it is by every later one.
GetModuleData(g, cached, plugs) ==
    IF g = "done"
    THEN { [data |-> cached, constructed |-> FALSE] }
    ELSE { [data |-> d, constructed |-> TRUE] : d \in ModuleDataOutcomes(plugs) }

\* The effect of a call that returned r on the static and its history.
Discovered(r) ==
    /\ guard' = "done"
    /\ theData' = r.data
    /\ enumerated' = IF r.constructed THEN plugins ELSE enumerated
    /\ enumCount' = IF r.constructed /\ enumCount < EnumCap
                    THEN enumCount + 1 ELSE enumCount


(* ------------------------------ the form ------------------------------ *)

visualgroups ==
    << "Sorted by Effect Name", "Sorted by Publisher and Effect Name",
       "Sorted by Type and Effect Name", "Grouped by Publisher",
       "Grouped by Type" >>

prefsgroups ==
    << "sortby:name", "sortby:publisher:name", "sortby:type:name",
       "groupby:publisher", "groupby:type" >>

\* The requests a form makes of the ShuttleGui.
TieCheckBox(prompt, setting, default) ==
    [kind |-> "checkbox", prompt |-> prompt, key |-> setting,
     default |-> default, choices |-> <<>>, codes |-> <<>>]
TieChoice(prompt, setting, default, choices, codes) ==
    [kind |-> "choice", prompt |-> prompt, key |-> setting,
     default |-> default, choices |-> choices, codes |-> codes]
TieNumericTextBox(prompt, setting, default) ==
    [kind |-> "numeric", prompt |-> prompt, key |-> setting,
     default |-> default, choices |-> <<>>, codes |-> <<>>]

\* Fault variant of ModuleTies: the check boxes default to false.
ModuleTiesDefaultOff(data) ==
    [i \in 1..Len(data) |->
        TieCheckBox(data[i].prompt, data[i].setting, FALSE)]

\* "Enable Effects": one check box per entry of the module data, in its
\* order, enabled by default.
ModuleTies(data) ==
    [i \in 1..Len(data) |->
        TieCheckBox(data[i].prompt, data[i].setting, TRUE)]

\* Fault variant of OptionTies: the labels are passed as the codes too.
OptionTiesLabelsAsCodes(b) ==
    << TieChoice("S&ort or Group:", KeyGroupBy, "sortby:name",
                 visualgroups, visualgroups),
       TieNumericTextBox("&Maximum effects per group (0 to disable):",
                         KeyMaxPerGroup, IF b.wxGTK THEN 15 ELSE 0) >>

\* "Effect Options": the choice and the numeric text box.
OptionTies(b) ==
    << TieChoice("S&ort or Group:", KeyGroupBy, "sortby:name",
                 visualgroups, prefsgroups),
       TieNumericTextBox("&Maximum effects per group (0 to disable):",
                         KeyMaxPerGroup, IF b.wxGTK THEN 15 ELSE 0) >>

\* "Plugin Options" and "Instruction Set": fixed check boxes, compiled in
\* or out.
PluginTies(b) ==
    (IF b.effectManagement THEN <<>>
     ELSE << TieCheckBox("Check for updated plugins when Audacity starts",
                         KeyCheckForUpdates, TRUE),
             TieCheckBox("Rescan plugins next time Audacity is started",
                         KeyRescan, FALSE) >>)
    \o
    (IF b.sseThreaded
     THEN << TieCheckBox("&Use SSE/SSE2/.../AVX", KeySSE, TRUE) >>
     ELSE <<>>)

\* The requests of PopulateOrExchange, in order, given what GetModuleData
\* returned.
PopulateOrExchange(data, b) ==
    ModuleTies(data) \o OptionTies(b) \o PluginTies(b)

(* ------------------------------ ShuttleGui ---------------------------- *)

\* The position of a stored code among the internal choices; the first
\* choice when it is none of them.
TranslateToIndex(value, codes) ==
    IF \E i \in 1..Len(codes) : codes[i] = value
    THEN CHOOSE i \in 1..Len(codes) :
            codes[i] = value /\ \A j \in 1..(i - 1) : codes[j] # value
    ELSE 1

\* What a stored or default value of a request shows as in its control.
ToControl(tie, value) ==
    IF tie.kind = "choice" THEN TranslateToIndex(value, tie.codes) ELSE value

\* What the state of a control is stored as.
FromControl(tie, shown) ==
    IF tie.kind = "choice" THEN tie.codes[shown] ELSE shown

\* Load mode (eIsCreatingFromPrefs): the control of a request shows the
\* value stored under its key, or the default when nothing is stored.
LoadTie(tie, prefs) ==
    [tie |-> tie,
     value |-> ToControl(tie, IF tie.key \in DOMAIN prefs
                              THEN prefs[tie.key] ELSE tie.default)]

LoadAll(ties, prefs) == [i \in 1..Len(ties) |-> LoadTie(ties[i], prefs)]

Write(prefs, key, value) ==
    [k \in DOMAIN prefs \cup {key} |-> IF k = key THEN value ELSE prefs[k]]

\* Save mode (eIsSavingToPrefs): the requests are served in order; the
\* i-th one finds the i-th control of the panel and writes its state under
\* the request's key.
RECURSIVE SaveAll(_, _, _, _)
SaveAll(prefs, ties, ctrls, i) ==
    IF i > Len(ties) THEN prefs
    ELSE SaveAll(IF i <= Len(ctrls) /\ ctrls[i].tie.kind = ties[i].kind
                 THEN Write(prefs, ties[i].key,
                            FromControl(ties[i], ctrls[i].value))
                 ELSE prefs,
                 ties, ctrls, i + 1)

TieKeys(ties) == { ties[i].key : i \in 1..Len(ties) }

\* A ShuttleGui of the given mode serving the requests of a form: what
\* becomes of the panel's controls, of the store, and of the record of the
\* keys read and written.
ShuttleControls(mode, ties, ctrls, prefs) ==
    IF mode = "eIsCreatingFromPrefs" THEN LoadAll(ties, prefs) ELSE ctrls
ShuttlePrefs(mode, ties, ctrls, prefs) ==
    IF mode = "eIsSavingToPrefs" THEN SaveAll(prefs, ties, ctrls, 1) ELSE prefs
ShuttleRead(mode, ties, before) ==
    IF mode = "eIsCreatingFromPrefs" THEN TieKeys(ties) ELSE before
ShuttleWritten(mode, ties, before) ==
    IF mode = "eIsSavingToPrefs" THEN TieKeys(ties) ELSE before

\* What the user can set a control to.
Settable(ctrl) ==
    CASE ctrl.tie.kind = "checkbox" -> BOOLEAN
      [] ctrl.tie.kind = "choice" -> 1..Len(ctrl.tie.choices)
      [] ctrl.tie.kind = "numeric" -> 0..MaxTyped


(* ---------------------------- the UI thread --------------------------- *)

\* The preferences a process may start with: none (a fresh installation),
\* or those an earlier run left behind.
InitialStores ==
    { <<>>,
      (KeyLADSPA :> FALSE) @@ (KeyGroupBy :> "groupby:type") }

\* The state of a process before the panel is first used.
Start(builds, stores) ==
    /\ build \in builds
    /\ plugins \in Registries
    /\ regChanges = 0
    /\ guard = "uninit"
    /\ theData = <<>>
    /\ enumerated = <<>>
    /\ enumCount = 0
    /\ gPrefs \in stores
    /\ panelOpen = FALSE
    /\ controls = <<>>
    /\ keysRead = {}
    /\ keysWritten = {}
    /\ commitReturn = TRUE
    /\ opens = 0
    /\ edits = 0
    /\ lastOp = "start"
    /\ pc = [t \in Threads |-> "idle"]
    /\ cursor = 0
    /\ seen = [t \in Threads |-> <<>>]

\* The mode of the ShuttleGui that Populate constructs.
PopulateMode == "eIsCreatingFromPrefs"

\* Fault variant of CommitMode: Commit constructs a loading ShuttleGui.
CommitModeCreating == "eIsCreatingFromPrefs"

\* The mode of the ShuttleGui that Commit constructs.
CommitMode == "eIsSavingToPrefs"

\* Fault variant of CommitReturn: success only when the store changed.
CommitReturnIfChanged(before, after) == before # after

\* Commit's return value.
CommitReturn(before, after) == TRUE

\* A ShuttleGui of the given mode is handed to PopulateOrExchange, which
\* calls GetModuleData and then makes its requests.
Exchange(mode) ==
    \E r \in GetModuleData(guard, theData, plugins) :
        LET ties == PopulateOrExchange(r.data, build)
        IN  /\ Discovered(r)
            /\ controls' = ShuttleControls(mode, ties, controls, gPrefs)
            /\ gPrefs' = ShuttlePrefs(mode, ties, controls, gPrefs)
            /\ keysRead' = ShuttleRead(mode, ties, keysRead)
            /\ keysWritten' = ShuttleWritten(mode, ties, keysWritten)

\* EffectsPrefs::EffectsPrefs: Populate() builds the controls of the form
\* in load mode.
Populate ==
    /\ ~panelOpen
    /\ opens < MaxOpens
    /\ Exchange(PopulateMode)
    /\ panelOpen' = TRUE
    /\ opens' = opens + 1
    /\ lastOp' = "Populate"
    /\ UNCHANGED <<build, plugins, regChanges, commitReturn, edits,
                   threadVars>>

\* The user changes one control of the open panel.
UserEdit ==
    /\ panelOpen
    /\ edits < MaxEdits
    /\ \E i \in 1..Len(controls) :
          \E v \in Settable(controls[i]) :
             /\ v # controls[i].value
             /\ controls' = [controls EXCEPT ![i].value = v]
    /\ edits' = edits + 1
    /\ lastOp' = "UserEdit"
    /\ UNCHANGED <<build, plugins, regChanges, discoveryVars, gPrefs,
                   panelOpen, keysRead, keysWritten, commitReturn, opens,
                   threadVars>>

\* EffectsPrefs::Commit: the same form in save mode.
Commit ==
    /\ panelOpen
    /\ Exchange(CommitMode)
    /\ commitReturn' = CommitReturn(gPrefs, gPrefs')
    /\ lastOp' = "Commit"
    /\ UNCHANGED <<build, plugins, regChanges, panelOpen, opens, edits,
                   threadVars>>

\* EffectsPrefs::~EffectsPrefs: the panel and its controls go away.
Destroy ==
    /\ panelOpen
    /\ panelOpen' = FALSE
    /\ controls' = <<>>
    /\ lastOp' = "Destroy"
    /\ UNCHANGED <<build, plugins, regChanges, discoveryVars, gPrefs,
                   keysRead, keysWritten, commitReturn, opens, edits,
                   threadVars>>

\* A module is registered with the plugin registry while the process runs.
RegistryInstall ==
    /\ regChanges < MaxRegistryChanges
    /\ Len(plugins) < MaxModules
    /\ \E m \in Modules :
          /\ \A i \in 1..Len(plugins) : plugins[i] # m
          /\ plugins' = Append(plugins, m)
    /\ regChanges' = regChanges + 1
    /\ lastOp' = "RegistryInstall"
    /\ UNCHANGED <<build, discoveryVars, gPrefs, panelVars, threadVars>>

\* A module is removed from the plugin registry while the process runs.
RegistryUninstall ==
    /\ regChanges < MaxRegistryChanges
    /\ \E i \in 1..Len(plugins) :
          plugins' = SubSeq(plugins, 1, i - 1)
                        \o SubSeq(plugins, i + 1, Len(plugins))
    /\ regChanges' = regChanges + 1
    /\ lastOp' = "RegistryUninstall"
    /\ UNCHANGED <<build, discoveryVars, gPrefs, panelVars, threadVars>>

(* ------------------------ concurrent first calls ---------------------- *)

\* Fault variant of StaticInit: a flag set before the constructor runs, and
\* no waiting for its end.
StaticInitUnguarded(g) ==
    IF g = "uninit" THEN "construct" ELSE "use"

\* What a thread does at the declaration of the static theData: the first
\* one to arrive constructs it, one arriving during the construction waits
\* for its end, one arriving later uses the object (the initialisation of a
\* block-scope static, C++11).
StaticInit(g) ==
    CASE g = "uninit" -> "construct"
      [] g = "busy" -> "wait"
      [] g = "done" -> "use"

\* A thread calls GetModuleData.
ThreadCall(t) ==
    /\ pc[t] = "idle"
    /\ pc' = [pc EXCEPT ![t] = "static"]
    /\ UNCHANGED <<build, plugins, regChanges, discoveryVars, gPrefs,
                   panelVars, lastOp, cursor, seen>>

\* It reaches the declaration of theData and starts the constructor, or
\* passes by an initialised object.
ThreadEnter(t) ==
    /\ pc[t] = "static"
    /\ \/ /\ StaticInit(guard) = "construct"
          /\ guard' = "busy"
          /\ theData' = <<>>
          /\ enumerated' = plugins
          /\ enumCount' = IF enumCount < EnumCap
                          THEN enumCount + 1 ELSE enumCount
          /\ cursor' = 1
          /\ pc' = [pc EXCEPT ![t] = "loop"]
       \/ /\ StaticInit(guard) = "use"
          /\ pc' = [pc EXCEPT ![t] = "return"]
          /\ UNCHANGED <<discoveryVars, cursor>>
    /\ UNCHANGED <<build, plugins, regChanges, gPrefs, panelVars, lastOp,
                   seen>>

\* The constructor handles the next plugin of the registry.
ThreadLoop(t) ==
    /\ pc[t] = "loop"
    /\ cursor <= Len(plugins)
    /\ theData' = LoopBody(theData, plugins[cursor])
    /\ cursor' = cursor + 1
    /\ UNCHANGED <<build, plugins, regChanges, guard, enumerated, enumCount,
                   gPrefs, panelVars, lastOp, pc, seen>>

\* After the last plugin the constructor sorts; the static is initialised.
ThreadSort(t) ==
    /\ pc[t] = "loop"
    /\ cursor > Len(plugins)
    /\ theData' \in SortOutcomes(theData)
    /\ guard' = "done"
    /\ pc' = [pc EXCEPT ![t] = "return"]
    /\ UNCHANGED <<build, plugins, regChanges, enumerated, enumCount,
                   gPrefs, panelVars, lastOp, cursor, seen>>

\* GetModuleData returns the static; the caller reads the list.
ThreadReturn(t) ==
    /\ pc[t] = "return"
    /\ seen' = [seen EXCEPT ![t] = theData]
    /\ pc' = [pc EXCEPT ![t] = "done"]
    /\ UNCHANGED <<build, plugins, regChanges, discoveryVars, gPrefs,
                   panelVars, lastOp, cursor>>

(* --------------------------- specifications -------------------------- *)

\* Any build, any initial store; the registry does not change while the
\* process runs.
Init == Start(Builds, InitialStores)

Next ==
    \/ Populate
    \/ UserEdit
    \/ Commit
    \/ Destroy

Spec == Init /\ [][Next]_vars

\* A build without the optional sections on a fresh installation; modules
\* are installed and removed while the process runs.
InitDynamic ==
    Start({b \in Builds : b.effectManagement /\ ~b.sseThreaded /\ ~b.wxGTK},
          {<<>>})

NextDynamic ==
    \/ Populate
    \/ UserEdit
    \/ Commit
    \/ Destroy
    \/ RegistryInstall
    \/ RegistryUninstall

SpecDynamic == InitDynamic /\ [][NextDynamic]_vars

\* Several threads call GetModuleData for the first time.
NextThreads ==
    \E t \in Threads :
        \/ ThreadCall(t)
        \/ ThreadEnter(t)
        \/ ThreadLoop(t)
        \/ ThreadSort(t)
        \/ ThreadReturn(t)

SpecThreads == InitDynamic /\ [][NextThreads]_vars

(* ------------------------------ properties --------------------------- *)

\* The positions of the enumerated modules that have an effect family.
WithFamily == { i \in 1..Len(enumerated) : enumerated[i].family # "" }

\* The one-to-one assignments of those modules to the positions of theData.
Assignments ==
    { f \in [WithFamily -> 1..Len(theData)] :
        \A i, j \in WithFamily : i # j => f[i] # f[j] }

SortedBySetting(data) ==
    \A i \in 1..(Len(data) - 1) : ~StrLess(data[i + 1].setting, data[i].setting)

\* What a control's state is stored as.
Stored(ctrl) ==
    IF ctrl.tie.kind = "choice" THEN ctrl.tie.codes[ctrl.value] ELSE ctrl.value

\* C1: the module data holds exactly one entry per enumerated module with a
\* non-empty effect family, and none for a module without one: as many
\* entries as such modules, each module assigned an entry of its own with
\* its setting key (two modules with the same key keep two entries; no
\* modules, no entries).
C1_OneEntryPerFamilyModule ==
    guard = "done" =>
        /\ Len(theData) = Cardinality(WithFamily)
        /\ \E f \in Assignments :
              \A i \in WithFamily : theData[f[i]].setting = enumerated[i].setting

\* Two enumerated modules share a setting key and each has its entry.
C1_Witness ==
    /\ guard = "done"
    /\ Len(theData) = 2
    /\ \E i, j \in WithFamily :
          i # j /\ enumerated[i].setting = enumerated[j].setting

\* C2: once computed, the module data is sorted ascending by setting key in
\* every later state, and no operation of the panel changes it.
C2_SortedAndUnchanged ==
    /\ [](guard = "done" => SortedBySetting(theData))
    /\ [][guard = "done"
            /\ lastOp' \in {"Populate", "UserEdit", "Commit", "Destroy"}
          => theData' = theData]_vars

\* Two entries with different keys, after a Commit.
C2_Witness ==
    /\ guard = "done"
    /\ lastOp = "Commit"
    /\ Len(theData) = 2
    /\ theData[1].setting # theData[2].setting

\* C3: the module data does not depend on the order in which the registry
\* enumerates the modules: every enumeration order of the same modules,
\* and every outcome of the sort, gives the sequence that was computed.
C3_OrderIndependent ==
    guard = "done" =>
        \A order \in PermSeqs(enumerated) :
            ModuleDataOutcomes(order) = {theData}

\* C4: every module with a family has an entry whose prompt is the
\* suggested prompt of its family when the table has one and the module's
\* own msgid when it has none, and whose setting is the module's key.
C4_PromptAndSetting ==
    guard = "done" =>
        \E f \in Assignments :
            \A i \in WithFamily :
                LET m == enumerated[i]
                IN  /\ theData[f[i]].setting = m.setting
                    /\ theData[f[i]].prompt =
                          IF m.family \in DOMAIN SuggestedPrompts
                          THEN SuggestedPrompts[m.family] ELSE m.msgid

\* One entry carries a suggested prompt, another a module's own msgid.
C4_Witness ==
    /\ guard = "done"
    /\ \E i, j \in 1..Len(theData) :
          /\ theData[i].prompt = "&LADSPA"
          /\ theData[j].prompt = "MyCo Reverbs"

\* C5: the registry is enumerated at most once per process; once the module
\* data is computed, no call enumerates again or changes the sequence, also
\* when the registry has changed since.
C5_EnumeratedOnce ==
    /\ [](enumCount <= 1)
    /\ [][guard = "done" => theData' = theData /\ enumCount' = enumCount]_vars

\* A call (by Commit) after the registry has changed.
C5_Witness ==
    /\ guard = "done"
    /\ lastOp = "Commit"
    /\ regChanges > 0
    /\ plugins # enumerated
    /\ ModuleDataOutcomes(plugins) # ModuleDataOutcomes(enumerated)

\* C6: Commit returns true, whatever the controls and the store hold.
C6_CommitSucceeds == lastOp = "Commit" => commitReturn = TRUE

\* A Commit of a panel in which the user has changed a control.
C6_Witness ==
    /\ lastOp = "Commit"
    /\ edits > 0
    /\ \E i \in 1..Len(controls) :
          Stored(controls[i]) # controls[i].tie.default

\* C7 as claimed: after Commit the store holds, for every control, that
\* control's value under its key, and the keys written are the keys read.
C7_EveryControlStored ==
    lastOp = "Commit" =>
        /\ \A i \in 1..Len(controls) :
              /\ controls[i].tie.key \in DOMAIN gPrefs
              /\ gPrefs[controls[i].tie.key] = Stored(controls[i])
        /\ keysWritten = keysRead

\* C7 as amended: after Commit the store holds, under the key of every
\* control, the value of the last control of the form bound to that key
\* (so the value of every control whose key no later control is bound to),
\* and the keys written are the keys read when the panel was populated.
C7_LastControlStored ==
    lastOp = "Commit" =>
        /\ \A i \in 1..Len(controls) :
              (\A j \in (i + 1)..Len(controls) :
                   controls[j].tie.key # controls[i].tie.key)
              => /\ controls[i].tie.key \in DOMAIN gPrefs
                 /\ gPrefs[controls[i].tie.key] = Stored(controls[i])
        /\ keysWritten = keysRead
        /\ keysWritten = { controls[i].tie.key : i \in 1..Len(controls) }

\* A Commit of two check boxes bound to one key that differ.
C7_Witness ==
    /\ lastOp = "Commit"
    /\ \E i, j \in 1..Len(controls) :
          /\ i < j
          /\ controls[i].tie.key = controls[j].tie.key
          /\ controls[i].value # controls[j].value

\* C8: when the panel is populated, its first controls are one check box
\* per entry of the module data, in its order, each bound to the entry's
\* setting key with default true and showing the stored value of the key,
\* or enabled when nothing is stored; no other control belongs to an entry.
C8_OneTogglePerEntry ==
    lastOp = "Populate" =>
        /\ Len(controls) >= Len(theData)
        /\ \A i \in 1..Len(theData) :
              /\ controls[i].tie.kind = "checkbox"
              /\ controls[i].tie.prompt = theData[i].prompt
              /\ controls[i].tie.key = theData[i].setting
              /\ controls[i].tie.default = TRUE
              /\ controls[i].value =
                    IF theData[i].setting \in DOMAIN gPrefs
                    THEN gPrefs[theData[i].setting] ELSE TRUE
        /\ \A j \in (Len(theData) + 1)..Len(controls) :
              \A i \in 1..Len(theData) :
                  controls[j].tie.key # theData[i].setting

\* A populated panel with a check box showing a stored "disabled" and one
\* whose key is not stored.
C8_Witness ==
    /\ lastOp = "Populate"
    /\ \E i, j \in 1..Len(theData) :
          /\ theData[i].setting \in DOMAIN gPrefs
          /\ controls[i].value = FALSE
          /\ theData[j].setting \notin DOMAIN gPrefs
          /\ controls[j].value = TRUE

\* The controls of the panel bound to /Effects/GroupBy.
GroupByControls ==
    { i \in 1..Len(controls) : controls[i].tie.key = KeyGroupBy }

C10_OneInitialisation ==
    /\ enumCount <= 1
    /\ \A t \in Threads :
          pc[t] = "done" =>
              /\ guard = "done"
              /\ seen[t] = theData
              /\ Len(seen[t]) = Cardinality(WithFamily)
              /\ SortedBySetting(seen[t])

\* All threads have returned from their first call with a list of two.
C10_Witness ==
    /\ \A t \in Threads : pc[t] = "done" /\ Len(seen[t]) = 2
    /\ seen[1][1].setting # seen[1][2].setting
    /\ enumCount = 1

=============================================================================
